---- MODULE Spec2Model ----
(***************************************************************************)
(* Model of the DC2 postage-stamp notebook (src/unnamed/part_000): the     *)
(* cutout fetcher (cutout_coadd_ra_dec, cutout_coadd_spherepoint), the     *)
(* plotting wrapper make_cutout_image, the batch loop over the target      *)
(* catalog and the PSF-subtraction cells.  The butler, the skyMap, the     *)
(* WCS and matplotlib are collaborators: the model keeps the requests      *)
(* they receive and lets their answers vary.                               *)
(***************************************************************************)
EXTENDS Integers, Sequences, FiniteSets, TLC

(***************************************************************************)
(* Bounds of the model and the geometry of the modelled sky.               *)
(***************************************************************************)
MaxCalls == 2          \* fetcher calls in one session
MaxImageCalls == 1     \* make_cutout_image calls in one session
MaxTargets == 3        \* rows of the target catalog
MaxCut == 2            \* the cutout array has 1..MaxCut rows and columns
MaxPad == 2            \* the PSF image has 0..MaxPad more rows, and columns
MaxSeed == 1           \* pixel patterns of the cutout and of the PSF image
MaxRuns == 2           \* times the PSF-subtraction cells are run
MaxTables == 5         \* tables the light-curve iterator yields, at most
MaxSide == 2           \* explicit cutoutSideLength values are 1..MaxSide
PatchSize == 100       \* pixels per patch side
PatchesPerSide == 1    \* patches per tract side
RaStep2 == 99          \* half-pixels per unit of right ascension
DecStep2 == 20         \* half-pixels per unit of declination
DecZero2 == 101        \* half-pixel row of declination 0

DefaultSide == 51      \* cutoutSideLength=51
MinEpochs == 20        \* len(q['mjd']) >= 20
PlotLimit == 3         \* n_plotted >= 3

None == "None"

(***************************************************************************)
(* Inputs.                                                                 *)
(***************************************************************************)
\* sky positions (ra, dec): inside a patch, on a patch edge, outside the tract
Coords == {<<1, 0>>, <<0, 1>>, <<3, 1>>}
Filters == {"r", "i"}
\* datasetType values: the documented one, another coadd the repository
\* holds, and the one the docstring says is not supported
Kinds == {"deepCoadd", "goodSeeingCoadd", "calexp"}
Sides == 1..MaxSide
\* what the storage collaborator answers to the reads of one call
Resps == {"ok", "skyFail", "subFail"}
\* the optional keywords of cutout_coadd_ra_dec: none given (the defaults of
\* cutout_coadd_spherepoint), or a skymap and a side length
RaDecKwargs ==
    {[skymap |-> None, cutoutSideLength |-> DefaultSide]}
    \cup {[skymap |-> "skymap", cutoutSideLength |-> s] : s \in Sides}

(***************************************************************************)
(* afw geometry, as used by lines 162-171.                                 *)
(***************************************************************************)
\* afwGeom.ExtentI(w, h)
ExtentI(w, h) == <<w, h>>

\* ExtentI // 2: floor division of each component
ExtentFloorDiv(e, d) == <<e[1] \div d, e[2] \div d>>

\* PointI - ExtentI
PointMinus(p, e) == <<p[1] - e[1], p[2] - e[2]>>

\* afwGeom.BoxI(minimum, dimensions)
BoxI(min, dims) == [x0 |-> min[1], y0 |-> min[2], w |-> dims[1], h |-> dims[2]]

NoBox == [x0 |-> 0, y0 |-> 0, w |-> 0, h |-> 0]

\* tractInfo.getWcs().skyToPixel(radec): a Point2D, here in half-pixels
skyToPixel(radec) == <<radec[1] * RaStep2, DecZero2 + radec[2] * DecStep2>>

\* afwGeom.PointI(Point2D): each coordinate rounded to nearest, floor(v + 0.5)
PointI(p2) == <<(p2[1] + 1) \div 2, (p2[2] + 1) \div 2>>

\* skymap.findTract(radec).getId(): one tract per declination band
findTract(radec) == radec[2]

TractSize == PatchSize * PatchesPerSide

\* whether the tract holds the pixel
InTract(xy) == /\ 0 <= xy[1] /\ xy[1] < TractSize
               /\ 0 <= xy[2] /\ xy[2] < TractSize

\* tractInfo.findPatch(radec).getIndex(), defined for positions in the tract
findPatch(radec) ==
    LET xy == PointI(skyToPixel(radec))
    IN  <<xy[1] \div PatchSize, xy[2] \div PatchSize>>

\* the pixel box of a patch
PatchBox(index) == [x0 |-> index[1] * PatchSize, y0 |-> index[2] * PatchSize,
                    w |-> PatchSize, h |-> PatchSize]

\* a box lies within another
Within(b, outer) == /\ outer.x0 <= b.x0 /\ b.x0 + b.w <= outer.x0 + outer.w
                    /\ outer.y0 <= b.y0 /\ b.y0 + b.h <= outer.y0 + outer.h

\* intersection of two boxes (BoxI.clip)
Max2(a, b) == IF a >= b THEN a ELSE b
Min2(a, b) == IF a <= b THEN a ELSE b
Clip(b, outer) ==
    LET x0 == Max2(b.x0, outer.x0)
        y0 == Max2(b.y0, outer.y0)
        x1 == Min2(b.x0 + b.w, outer.x0 + outer.w)
        y1 == Min2(b.y0 + b.h, outer.y0 + outer.h)
    IN  [x0 |-> x0, y0 |-> y0, w |-> Max2(0, x1 - x0), h |-> Max2(0, y1 - y0)]

(***************************************************************************)
(* Storage requests.                                                       *)
(***************************************************************************)
NoId == [tract |-> -1, patch |-> <<-1, -1>>, filter |-> "none"]

\* butler.get("%s_skyMap" % datasetType)
SkyMapRead(datasetType) ==
    [kind |-> datasetType, suffix |-> "_skyMap", dataId |-> NoId, bbox |-> NoBox]

\* butler.get(datasetType+'_sub', bbox=bbox, immediate=True, dataId=coaddId)
SubRead(datasetType, coaddId, bbox) ==
    [kind |-> datasetType, suffix |-> "_sub", dataId |-> coaddId, bbox |-> bbox]

\* "Which type of coadd to load.  Doesn't support 'calexp'": the repository
\* has no calexp skyMap and no calexp keyed by tract and patch, so the butler
\* fails every such read; the reads of a coadd kind succeed or fail as resp says
SkyMapReadFails(datasetType, resp) == datasetType = "calexp" \/ resp = "skyFail"
SubReadFails(datasetType, resp) == datasetType = "calexp" \/ resp = "subFail"

(***************************************************************************)
(* The cutout fetcher, lines 111-177.  resp is what the storage            *)
(* collaborator answers to this call's reads.  The result holds the reads  *)
(* issued in order, the error raised ("none" when the call returns) and    *)
(* the returned exposure.                                                  *)
(***************************************************************************)
NoImage == [kind |-> "none", dataId |-> NoId, bbox |-> NoBox]

\* CutoutBBox with the box clipped to the patch that holds the centre
CutoutBBoxClipped(radec, cutoutSideLength) ==
    LET cutoutSize == ExtentI(cutoutSideLength, cutoutSideLength)
        xy == PointI(skyToPixel(radec))
    IN  Clip(BoxI(PointMinus(xy, ExtentFloorDiv(cutoutSize, 2)), cutoutSize),
             PatchBox(findPatch(radec)))

\* CutoutBBox with the half side rounded up instead of down
CutoutBBoxCeil(radec, cutoutSideLength) ==
    LET cutoutSize == ExtentI(cutoutSideLength, cutoutSideLength)
        xy == PointI(skyToPixel(radec))
    IN  BoxI(PointMinus(xy, ExtentFloorDiv(ExtentI(cutoutSideLength + 1,
                                                   cutoutSideLength + 1), 2)),
             cutoutSize)

\* lines 162, 170-171: the box requested around radec
CutoutBBox(radec, cutoutSideLength) ==
    LET cutoutSize == ExtentI(cutoutSideLength, cutoutSideLength)
        xy == PointI(skyToPixel(radec))
    IN  BoxI(PointMinus(xy, ExtentFloorDiv(cutoutSize, 2)), cutoutSize)

\* line 173
CoaddId(radec, filter) ==
    [tract |-> findTract(radec), patch |-> findPatch(radec), filter |-> filter]

cutout_coadd_spherepoint(radec, filter, datasetType, skymap, cutoutSideLength, resp) ==
    LET skyReads == IF skymap = None THEN <<SkyMapRead(datasetType)>> ELSE <<>>
        xy == PointI(skyToPixel(radec))
        bbox == CutoutBBox(radec, cutoutSideLength)
        coaddId == CoaddId(radec, filter)
        subRead == SubRead(datasetType, coaddId, bbox)
    IN  IF skymap = None /\ SkyMapReadFails(datasetType, resp)
        THEN [reads |-> skyReads, err |-> "ReadError", image |-> NoImage]
        ELSE IF ~InTract(xy)
        THEN [reads |-> skyReads, err |-> "LookupError", image |-> NoImage]
        ELSE IF SubReadFails(datasetType, resp)
        THEN [reads |-> Append(skyReads, subRead), err |-> "ReadError",
              image |-> NoImage]
        ELSE [reads |-> Append(skyReads, subRead), err |-> "none",
              image |-> [kind |-> datasetType, dataId |-> coaddId, bbox |-> bbox]]

\* cutout_coadd_ra_dec with a check of the image kind before any read
cutout_coadd_ra_dec_checked(radec, filter, datasetType, kwargs, resp) ==
    IF datasetType # "deepCoadd"
    THEN [reads |-> <<>>, err |-> "UnsupportedKind", image |-> NoImage]
    ELSE cutout_coadd_spherepoint(radec, filter, datasetType, None, DefaultSide,
                                  resp)

\* lines 134-135: kwargs (skymap, cutoutSideLength) are accepted and not passed on
cutout_coadd_ra_dec(radec, filter, datasetType, kwargs, resp) ==
    cutout_coadd_spherepoint(radec, filter, datasetType, None, DefaultSide, resp)

(***************************************************************************)
(* Python values of the savefits and saveplot flags, and file names.  A    *)
(* string is the tuple of its pieces, the empty tuple the empty string.    *)
(***************************************************************************)
PyFalse == [type |-> "bool", val |-> <<"False">>]
PyTrue == [type |-> "bool", val |-> <<"True">>]
PyStr(pieces) == [type |-> "str", val |-> pieces]

\* bool(v), the test of "if savefits:" and "if saveplot:"
Truthy(v) == IF v.type = "bool" THEN v.val = <<"True">> ELSE v.val # <<>>

\* isinstance(v, str)
IsStr(v) == v.type = "str"

SaveFitsValues == {PyFalse, PyTrue, PyStr(<<>>), PyStr(<<"out.fits">>)}
SavePlotValues == {PyFalse, PyTrue, PyStr(<<>>), PyStr(<<"out.png">>)}

\* answers of the collaborators to one make_cutout_image call: those of the
\* storage reads, and a failing writeFits or savefig
ImageResps == Resps \cup {"fitsFail", "pngFail"}

NoLabel == <<"None">>

(***************************************************************************)
(* make_cutout_image, lines 186-240.                                       *)
(***************************************************************************)
\* FitsWrite that writes whatever savefits is
FitsWriteAlways(savefits, cutout_image, resp) ==
    LET filename == IF IsStr(savefits) THEN savefits.val
                    ELSE <<"postage-stamp.fits">>
    IN  IF resp = "fitsFail"
        THEN [ops |-> <<"writeFits">>, written |-> <<>>, err |-> "WriteError"]
        ELSE [ops |-> <<"writeFits">>,
              written |-> <<[name |-> filename, fmt |-> "fits",
                             image |-> cutout_image, drawn |-> <<>>]>>,
              err |-> "none"]

\* lines 212-217
FitsWrite(savefits, cutout_image, resp) ==
    IF Truthy(savefits)
    THEN LET filename == IF IsStr(savefits) THEN savefits.val
                         ELSE <<"postage-stamp.fits">>
         IN  IF resp = "fitsFail"
             THEN [ops |-> <<"writeFits">>, written |-> <<>>, err |-> "WriteError"]
             ELSE [ops |-> <<"writeFits">>,
                   written |-> <<[name |-> filename, fmt |-> "fits",
                                  image |-> cutout_image, drawn |-> <<>>]>>,
                   err |-> "none"]
    ELSE [ops |-> <<>>, written |-> <<>>, err |-> "none"]

\* lines 222-230: what the call draws on the current figure
Drawing(cutout_image, vmin, vmax, label) ==
    [image |-> cutout_image,
     limits |-> IF vmin = None \/ vmax = None THEN <<"zscale">> ELSE <<vmin, vmax>>,
     label |-> label]

DrawOps(label) ==
    <<"imshow", "colorbar", "scatter">> \o (IF label # NoLabel THEN <<"title">> ELSE <<>>)

\* lines 231-236: figure is the current figure with the new drawing on it
PngWrite(saveplot, figure, resp) ==
    IF Truthy(saveplot)
    THEN LET filename == IF IsStr(saveplot) THEN saveplot.val
                         ELSE <<"postage-stamp.png">>
         IN  IF resp = "pngFail"
             THEN [ops |-> <<"savefig">>, written |-> <<>>, err |-> "WriteError"]
             ELSE [ops |-> <<"savefig">>,
                   written |-> <<[name |-> filename, fmt |-> "png",
                                  image |-> NoImage, drawn |-> figure]>>,
                   err |-> "none"]
    ELSE [ops |-> <<>>, written |-> <<>>, err |-> "none"]

\* the names of the reads, as the log keeps them
ReadOps(reads) == [i \in 1..Len(reads) |-> reads[i].suffix]

\* fig is the current figure as the call finds it.  The datasetType argument
\* is not used: line 211 passes datasetType='deepCoadd'.
make_cutout_image(radec, filter, vmin, vmax, label, show, saveplot, savefits, datasetType, resp, fig) ==
    LET c == cutout_coadd_ra_dec(radec, filter, "deepCoadd",
                                 [skymap |-> None, cutoutSideLength |-> DefaultSide],
                                 resp)
        f == FitsWrite(savefits, c.image, resp)
        figure == Append(fig, Drawing(c.image, vmin, vmax, label))
        g == PngWrite(saveplot, figure, resp)
    IN  IF c.err # "none"
        THEN [reads |-> c.reads, ops |-> ReadOps(c.reads), written |-> <<>>,
              canvas |-> fig, err |-> c.err, image |-> NoImage]
        ELSE IF f.err # "none"
        THEN [reads |-> c.reads, ops |-> ReadOps(c.reads) \o f.ops,
              written |-> <<>>, canvas |-> fig, err |-> f.err, image |-> NoImage]
        ELSE IF g.err # "none"
        THEN [reads |-> c.reads,
              ops |-> ReadOps(c.reads) \o f.ops \o DrawOps(label) \o g.ops,
              written |-> f.written, canvas |-> figure, err |-> g.err,
              image |-> NoImage]
        ELSE [reads |-> c.reads,
              ops |-> ReadOps(c.reads) \o f.ops \o DrawOps(label) \o g.ops
                      \o (IF show THEN <<"show">> ELSE <<>>),
              written |-> f.written \o g.written, canvas |-> figure,
              err |-> "none", image |-> c.image]

(***************************************************************************)
(* display_cutout_image, lines 354-397.  The filter and the datasetType of *)
(* the fetch are the literals of line 378; vmin, vmax, label, show,        *)
(* saveplot and datasetType are accepted and not used.  The image is shown *)
(* on the display of the given frame, not saved.                           *)
(***************************************************************************)
\* lines 386-395, for a call that passes no display: one is made for the frame
DisplayOps == <<"Display", "mtv", "scale", "dot", "show_colorbar">>

display_cutout_image(radec, vmin, vmax, label, show, saveplot, savefits, datasetType, resp) ==
    LET c == cutout_coadd_ra_dec(radec, "r", "deepCoadd",
                                 [skymap |-> None, cutoutSideLength |-> DefaultSide],
                                 resp)
        f == FitsWrite(savefits, c.image, resp)
    IN  IF c.err # "none"
        THEN [reads |-> c.reads, ops |-> ReadOps(c.reads), written |-> <<>>,
              err |-> c.err, image |-> NoImage]
        ELSE IF f.err # "none"
        THEN [reads |-> c.reads, ops |-> ReadOps(c.reads) \o f.ops,
              written |-> <<>>, err |-> f.err, image |-> NoImage]
        ELSE [reads |-> c.reads, ops |-> ReadOps(c.reads) \o f.ops \o DisplayOps,
              written |-> f.written, err |-> "none", image |-> c.image]

\* the files on disk after the files of ws are written, a later file of the
\* same name replacing an earlier one
RECURSIVE WriteAll(_, _)
WriteAll(disk, ws) ==
    IF ws = <<>> THEN disk
    ELSE WriteAll({f \in disk : f.name # Head(ws).name} \cup {Head(ws)}, Tail(ws))

(***************************************************************************)
(* numpy arrays, as the PSF-subtraction cells use them (lines 677-723).    *)
(* An array is [nx, ny, dtype, v]: np.shape is (nx, ny) and v maps the     *)
(* 0-based index <<i, j>> to the pixel, a fraction <<numerator,            *)
(* denominator>>; a denominator 0 stands for a value that is not finite.   *)
(***************************************************************************)
Rat(k) == <<k, 1>>
RatAdd(a, b) == <<a[1] * b[2] + b[1] * a[2], a[2] * b[2]>>
RatSub(a, b) == <<a[1] * b[2] - b[1] * a[2], a[2] * b[2]>>
RatMul(a, b) == <<a[1] * b[1], a[2] * b[2]>>
\* a / b of numpy floats: no error when b is 0, the quotient is inf or nan
RatDiv(a, b) == <<a[1] * b[2], a[2] * b[1]>>

Index(nx, ny) == (0..(nx - 1)) \X (0..(ny - 1))

NoArray == [nx |-> 0, ny |-> 0, dtype |-> "none", v |-> <<>>]

\* np.sum(arr[i, :])
RECURSIVE RowSumTo(_, _, _)
RowSumTo(arr, i, n) ==
    IF n = 0 THEN Rat(0) ELSE RatAdd(RowSumTo(arr, i, n - 1), arr.v[<<i, n - 1>>])
RowSum(arr, i) == RowSumTo(arr, i, arr.ny)

\* a slice bound of Python, brought into 0..len: a negative bound counts
\* from the end
SliceBound(b, len) ==
    IF b < 0 THEN Max2(b + len, 0) ELSE Min2(b, len)

\* CropStop with the division truncating towards zero
CropStopTrunc(offset) == -(offset \div 2)

\* CropStart with the half rounded up
CropStartCeil(offset) == (offset + 1) \div 2

\* offset//2, the start of the slice offset//2:-offset//2
CropStart(offset) == offset \div 2

\* -offset//2, the stop of the slice: Python negates first, then floor-divides
CropStop(offset) == (-offset) \div 2

\* the 0-based first index and the length of seq[offset//2:-offset//2]
CropLo(offset, len) == SliceBound(CropStart(offset), len)
CropLen(offset, len) ==
    Max2(0, SliceBound(CropStop(offset), len) - CropLo(offset, len))

\* Crop2D with the odd pixel discarded from the leading side of each axis
Crop2DTrailing(arr, ox, oy) ==
    LET nx == CropLen(ox, arr.nx)
        ny == CropLen(oy, arr.ny)
    IN  [nx |-> nx, ny |-> ny, dtype |-> arr.dtype,
         v |-> [ij \in Index(nx, ny) |->
                   arr.v[<<ij[1] + CropLo(ox, arr.nx) + (ox % 2),
                           ij[2] + CropLo(oy, arr.ny) + (oy % 2)>>]]]

\* arr[ox//2:-ox//2, oy//2:-oy//2]
Crop2D(arr, ox, oy) ==
    LET nx == CropLen(ox, arr.nx)
        ny == CropLen(oy, arr.ny)
    IN  [nx |-> nx, ny |-> ny, dtype |-> arr.dtype,
         v |-> [ij \in Index(nx, ny) |->
                   arr.v[<<ij[1] + CropLo(ox, arr.nx), ij[2] + CropLo(oy, arr.ny)>>]]]

\* scalar * arr, a float64 array
Scale(scalar, arr) ==
    [nx |-> arr.nx, ny |-> arr.ny, dtype |-> "float64",
     v |-> [ij \in Index(arr.nx, arr.ny) |-> RatMul(scalar, arr.v[ij])]]

\* numpy broadcasting of two lengths: equal, or one of them 1
Broadcasts(a, b) == a = b \/ a = 1 \/ b = 1
BroadcastLen(a, b) == IF a = 1 THEN b ELSE a

\* whether a - b raises ValueError (operands could not be broadcast together)
SubtractRaises(a, b) == ~(Broadcasts(a.nx, b.nx) /\ Broadcasts(a.ny, b.ny))

\* a - b where it is defined, a float64 array
Subtract(a, b) ==
    LET nx == BroadcastLen(a.nx, b.nx)
        ny == BroadcastLen(a.ny, b.ny)
        at(arr, ij) == arr.v[<<IF arr.nx = 1 THEN 0 ELSE ij[1],
                               IF arr.ny = 1 THEN 0 ELSE ij[2]>>]
    IN  [nx |-> nx, ny |-> ny, dtype |-> "float64",
         v |-> [ij \in Index(nx, ny) |-> RatSub(at(a, ij), at(b, ij))]]

\* arr.astype(np.float32), wrapped as afwImage.ImageF: the pixels are kept as
\* exact fractions, the rounding to single precision is not represented
AsImageF(arr) == [arr EXCEPT !.dtype = "float32"]

(***************************************************************************)
(* Exposures live on a heap: a variable of the notebook holds a reference. *)
(***************************************************************************)
\* residual = cutout, the same object under a second name
CloneAlias(h, ref) == [heap |-> h, ref |-> ref]

\* exposure.clone(): a deep copy, a new object
Clone(h, ref) ==
    LET new == Len(h) + 1
    IN  [heap |-> Append(h, h[ref]), ref |-> new]

\* exposure.setImage(image)
SetImage(h, ref, image) == [h EXCEPT ![ref].image = image]

(***************************************************************************)
(* State.                                                                  *)
(***************************************************************************)
VARIABLES
    nCalls,     \* calls made so far in the session
    log,        \* every read, write and drawing step so far: <<call, step>>
    hist,       \* per call: the function called and the error it raised
    last,       \* the latest call: its arguments, reads, error and result
    files,      \* the files on disk
    canvas,     \* what is drawn on the current matplotlib figure
    cat,        \* id_ra_dec: the position of each target, by row
    bfilter,    \* the notebook's filter
    bkind,      \* the notebook's datasetType
    pos,        \* rows of the catalog the batch loop has completed
    status,     \* of the batch loop: "idle", "running", "raised" or "done"
    heap,       \* the exposures, by reference
    cutout,     \* the notebook's cutout: a reference
    residual,   \* the notebook's residual: a reference, 0 before it is set
    kernel_image,       \* psf.computeImage(xy)
    scaling,            \* the notebook's scaling
    offset_nx,          \* the notebook's offset_nx
    offset_ny,          \* the notebook's offset_ny
    crop,               \* the cropped PSF image of the latest subtraction
    cutout_minus_psf,   \* the notebook's cutout_minus_psf
    defined,    \* the names the PSF-subtraction cells have assigned
    cellErr,    \* the error the latest cell raised, "none" if it ran through
    rpc,        \* the PSF-subtraction cell that ran last
    runs,       \* times the scaling cell was run
    results,    \* the cutout_minus_psf of every run of the subtraction cell
    inp,        \* the shapes and pixel patterns the session started with
    tables,     \* the epochs of each table the light-curve iterator yields
    taken,      \* tables taken from the iterator so far
    n_plotted,  \* the light-curve cell's n_plotted
    plotted,    \* the epochs of each light curve plotted
    lcpc        \* where the light-curve cell is: "idle", "loop", "after", "done"

fetchVars == <<nCalls, log, hist, last, files, canvas>>
batchVars == <<cat, bfilter, bkind, pos, status>>
residVars == <<heap, cutout, residual, kernel_image, scaling, offset_nx, offset_ny,
               crop, cutout_minus_psf, defined, cellErr, rpc, runs, results, inp>>
lcVars == <<tables, taken, n_plotted, plotted, lcpc>>
vars == <<nCalls, log, hist, last, files, canvas, cat, bfilter, bkind, pos, status,
          heap, cutout, residual, kernel_image, scaling, offset_nx, offset_ny,
          crop, cutout_minus_psf, defined, cellErr, rpc, runs, results, inp,
          tables, taken, n_plotted, plotted, lcpc>>

NoCall == [fn |-> "none", radec |-> <<0, 0>>, filter |-> "none", kind |-> "none",
           skymap |-> None, side |-> 0, reads |-> <<>>, err |-> "none",
           image |-> NoImage, repeat |-> FALSE, savefits |-> PyFalse,
           saveplot |-> PyFalse, written |-> <<>>]

\* the log entries of one call's steps
LogOf(call, ops) == [i \in 1..Len(ops) |-> <<call, ops[i]>>]

NoInput == [m |-> 0, n |-> 0, px |-> 0, py |-> 0, cseed |-> 0, kseed |-> 0]

\* before the PSF cells: no cutout is held
ResidIdle ==
    /\ heap = <<>>
    /\ cutout = 0
    /\ residual = 0
    /\ kernel_image = NoArray
    /\ scaling = Rat(0)
    /\ offset_nx = 0
    /\ offset_ny = 0
    /\ crop = NoArray
    /\ cutout_minus_psf = NoArray
    /\ defined = {}
    /\ cellErr = "none"
    /\ rpc = "idle"
    /\ runs = 0
    /\ results = <<>>
    /\ inp = NoInput

\* a fresh session: no call made, nothing written, nothing drawn
FetchIdle ==
    /\ nCalls = 0
    /\ log = <<>>
    /\ hist = <<>>
    /\ last = NoCall
    /\ files = {}
    /\ canvas = <<>>

\* the batch loop is not running
BatchIdle ==
    /\ cat = <<>>
    /\ bfilter = "none"
    /\ bkind = "none"
    /\ pos = 0
    /\ status = "idle"

\* the light-curve cell is not run
LcIdle ==
    /\ tables = <<>>
    /\ taken = 0
    /\ n_plotted = 0
    /\ plotted = <<>>
    /\ lcpc = "idle"

InitFetch ==
    /\ FetchIdle
    /\ BatchIdle
    /\ ResidIdle
    /\ LcIdle

\* what a call leaves behind: r is the fetcher's result
RecordCall(fn, radec, filter, datasetType, skymap, side, r) ==
    /\ hist' = Append(hist, [fn |-> fn, err |-> r.err])
    /\ last' = [fn |-> fn, radec |-> radec, filter |-> filter,
                kind |-> datasetType, skymap |-> skymap, side |-> side,
                reads |-> r.reads, err |-> r.err, image |-> r.image,
                repeat |-> (last.fn # "none" /\ last.radec = radec),
                savefits |-> PyFalse, saveplot |-> PyFalse, written |-> <<>>]
    /\ log' = log \o LogOf(nCalls + 1, ReadOps(r.reads))
    /\ nCalls' = nCalls + 1

\* a direct call of cutout_coadd_spherepoint
CallSpherePoint ==
    /\ nCalls < MaxCalls
    /\ \E radec \in Coords, filter \in Filters, datasetType \in Kinds,
          skymap \in {None, "skymap"}, side \in Sides, resp \in Resps :
          RecordCall("cutout_coadd_spherepoint", radec, filter, datasetType,
                     skymap, side,
                     cutout_coadd_spherepoint(radec, filter, datasetType, skymap,
                                              side, resp))
    /\ UNCHANGED <<files, canvas>>
    /\ UNCHANGED batchVars
    /\ UNCHANGED residVars
    /\ UNCHANGED lcVars

\* CallRaDec with the cutout of the previous call kept: a call at the same
\* position, band and kind is answered from it without a read
CallRaDecCached ==
    /\ nCalls < MaxCalls
    /\ \E radec \in Coords, filter \in Filters, datasetType \in Kinds,
          kwargs \in RaDecKwargs, resp \in Resps :
          LET hit == /\ last.fn = "cutout_coadd_ra_dec" /\ last.err = "none"
                     /\ last.radec = radec /\ last.filter = filter
                     /\ last.kind = datasetType
              r == IF hit
                   THEN [reads |-> <<>>, err |-> "none", image |-> last.image]
                   ELSE cutout_coadd_ra_dec(radec, filter, datasetType, kwargs,
                                            resp)
          IN  RecordCall("cutout_coadd_ra_dec", radec, filter, datasetType,
                         kwargs.skymap, kwargs.cutoutSideLength, r)
    /\ UNCHANGED <<files, canvas>>
    /\ UNCHANGED batchVars
    /\ UNCHANGED residVars
    /\ UNCHANGED lcVars

\* a call of cutout_coadd_ra_dec, with or without the optional keywords
CallRaDec ==
    /\ nCalls < MaxCalls
    /\ \E radec \in Coords, filter \in Filters, datasetType \in Kinds,
          kwargs \in RaDecKwargs, resp \in Resps :
          RecordCall("cutout_coadd_ra_dec", radec, filter, datasetType,
                     kwargs.skymap, kwargs.cutoutSideLength,
                     cutout_coadd_ra_dec(radec, filter, datasetType, kwargs,
                                         resp))
    /\ UNCHANGED <<files, canvas>>
    /\ UNCHANGED batchVars
    /\ UNCHANGED residVars
    /\ UNCHANGED lcVars

Next ==
    \/ CallSpherePoint
    \/ CallRaDec

Spec == InitFetch /\ [][Next]_vars

(***************************************************************************)
(* Calls of make_cutout_image from a notebook cell (lines 280-286), on the *)
(* current figure as it is.                                                *)
(***************************************************************************)
\* what a make_cutout_image call leaves behind: call is its number in the
\* log, before the steps the caller took first, r the result
RecordImageCall(call, radec, filter, datasetType, saveplot, savefits, before, r) ==
    /\ hist' = Append(hist, [fn |-> "make_cutout_image", err |-> r.err])
    /\ last' = [fn |-> "make_cutout_image", radec |-> radec, filter |-> filter,
                kind |-> datasetType, skymap |-> None, side |-> DefaultSide,
                reads |-> r.reads, err |-> r.err, image |-> r.image,
                repeat |-> (last.fn # "none" /\ last.radec = radec),
                savefits |-> savefits, saveplot |-> saveplot,
                written |-> r.written]
    /\ log' = log \o LogOf(call, before \o r.ops)
    /\ files' = WriteAll(files, r.written)
    /\ canvas' = r.canvas
    /\ nCalls' = nCalls + 1

CallMakeCutoutImage ==
    /\ nCalls < MaxImageCalls
    /\ \E radec \in Coords, filter \in Filters, datasetType \in Kinds,
          saveplot \in SavePlotValues, savefits \in SaveFitsValues,
          resp \in ImageResps :
          RecordImageCall(nCalls + 1, radec, filter, datasetType, saveplot,
                          savefits, <<>>,
                          make_cutout_image(radec, filter, None, None, NoLabel,
                                            TRUE, saveplot, savefits,
                                            datasetType, resp, canvas))
    /\ UNCHANGED batchVars
    /\ UNCHANGED residVars
    /\ UNCHANGED lcVars

\* answers of the collaborators to one display_cutout_image call: it has no
\* savefig to fail
DisplayResps == Resps \cup {"fitsFail"}

\* a call of display_cutout_image from a notebook cell (lines 416-420)
CallDisplayCutoutImage ==
    /\ nCalls < MaxImageCalls
    /\ \E radec \in Coords, datasetType \in Kinds, saveplot \in {PyFalse, PyTrue},
          savefits \in {PyFalse, PyStr(<<"out.fits">>)}, resp \in DisplayResps :
          LET r == display_cutout_image(radec, None, None, NoLabel, TRUE, saveplot,
                                        savefits, datasetType, resp)
          IN  /\ hist' = Append(hist, [fn |-> "display_cutout_image", err |-> r.err])
              /\ last' = [fn |-> "display_cutout_image", radec |-> radec,
                          filter |-> "r", kind |-> datasetType, skymap |-> None,
                          side |-> DefaultSide, reads |-> r.reads, err |-> r.err,
                          image |-> r.image,
                          repeat |-> (last.fn # "none" /\ last.radec = radec),
                          savefits |-> savefits, saveplot |-> saveplot,
                          written |-> r.written]
              /\ log' = log \o LogOf(nCalls + 1, r.ops)
              /\ files' = WriteAll(files, r.written)
    /\ nCalls' = nCalls + 1
    /\ UNCHANGED canvas
    /\ UNCHANGED batchVars
    /\ UNCHANGED residVars
    /\ UNCHANGED lcVars

NextImage ==
    \/ CallMakeCutoutImage
    \/ CallDisplayCutoutImage

SpecImage == InitFetch /\ [][NextImage]_vars

(***************************************************************************)
(* The batch loop over the target catalog, lines 322-336.                  *)
(***************************************************************************)
Catalogs == [1..MaxTargets -> Coords]

InitBatch ==
    /\ FetchIdle
    /\ ResidIdle
    /\ LcIdle
    /\ cat \in Catalogs
    /\ bfilter \in Filters
    /\ bkind \in Kinds
    /\ pos = 0
    /\ status = "running"

\* "Stamps/%s_%s_%s" % (datasetType, objectId, filter); a row's objectId is
\* its row number
Basename(datasetType, objectId, filter) ==
    <<"Stamps/", datasetType, "_", ToString(objectId), "_", filter>>

\* Clf that leaves the figure as it is
ClfKeep(fig) == fig

\* plt.clf()
Clf(fig) == <<>>

\* lines 328-336, one row of the catalog; objectId is the row number
BatchBody(objectId, resp) ==
    LET basename == Basename(bkind, objectId, bfilter)
        saveplot == PyStr(basename \o <<".png">>)
        savefits == PyStr(basename \o <<".fits">>)
    IN  make_cutout_image(cat[objectId], bfilter, "-0.75", "+1.5",
                          <<"Object ID: ", ToString(objectId)>>, FALSE,
                          saveplot, savefits, bkind, resp, Clf(canvas))

\* BatchIter with the row's error caught and the loop going on to the next row
BatchIterContinue ==
    /\ status = "running"
    /\ pos < Len(cat)
    /\ \E resp \in ImageResps :
          LET objectId == pos + 1
              basename == Basename(bkind, objectId, bfilter)
              r == BatchBody(objectId, resp)
          IN  RecordImageCall(objectId, cat[objectId], bfilter, bkind,
                              PyStr(basename \o <<".png">>),
                              PyStr(basename \o <<".fits">>),
                              <<"figure", "clf">>, r)
    /\ pos' = pos + 1
    /\ status' = IF pos + 1 = Len(cat) THEN "done" ELSE "running"
    /\ UNCHANGED <<cat, bfilter, bkind>>
    /\ UNCHANGED residVars
    /\ UNCHANGED lcVars

\* one iteration of the for loop: an error raised by the body ends the loop
BatchIter ==
    /\ status = "running"
    /\ pos < Len(cat)
    /\ \E resp \in ImageResps :
          LET objectId == pos + 1
              basename == Basename(bkind, objectId, bfilter)
              r == BatchBody(objectId, resp)
          IN  /\ RecordImageCall(objectId, cat[objectId], bfilter, bkind,
                                 PyStr(basename \o <<".png">>),
                                 PyStr(basename \o <<".fits">>),
                                 <<"figure", "clf">>, r)
              /\ IF r.err # "none"
                 THEN pos' = pos /\ status' = "raised"
                 ELSE /\ pos' = pos + 1
                      /\ status' = IF pos + 1 = Len(cat) THEN "done" ELSE "running"
    /\ UNCHANGED <<cat, bfilter, bkind>>
    /\ UNCHANGED residVars
    /\ UNCHANGED lcVars

NextBatch ==
    \/ BatchIter

SpecBatch == InitBatch /\ [][NextBatch]_vars

(***************************************************************************)
(* The PSF-subtraction cells, lines 568-574 and 675-762: the session       *)
(* starts with a cutout and the PSF image evaluated at its centre.         *)
(***************************************************************************)
Inputs ==
    [m : 1..MaxCut, n : 1..MaxCut, px : 0..MaxPad, py : 0..MaxPad,
     cseed : 0..MaxSeed, kseed : 0..MaxSeed]

\* cutout.image.array: m rows, n columns, every pixel different
CutoutArray(in) ==
    [nx |-> in.m, ny |-> in.n, dtype |-> "float32",
     v |-> [ij \in Index(in.m, in.n) |-> Rat(20 + in.cseed + 3 * ij[1] + 7 * ij[2])]]

\* kernel_image.array: px more rows and py more columns than the cutout;
\* pattern 0 is a PSF image of zeros
KernelArray(in) ==
    [nx |-> in.m + in.px, ny |-> in.n + in.py, dtype |-> "float64",
     v |-> [ij \in Index(in.m + in.px, in.n + in.py) |->
               Rat(in.kseed * (1 + ij[1] + 10 * ij[2]))]]

\* the exposure the fetch returned
CutoutExposure(in) ==
    [image |-> CutoutArray(in), mask |-> <<"mask", in.m, in.n>>,
     variance |-> <<"variance", in.m, in.n>>, wcs |-> <<"wcs", in.m, in.n>>]

InitResid ==
    /\ FetchIdle
    /\ BatchIdle
    /\ LcIdle
    /\ inp \in Inputs
    /\ heap = <<CutoutExposure(inp)>>
    /\ cutout = 1
    /\ residual = 0
    /\ kernel_image = KernelArray(inp)
    /\ scaling = Rat(0)
    /\ offset_nx = 0
    /\ offset_ny = 0
    /\ crop = NoArray
    /\ cutout_minus_psf = NoArray
    /\ defined = {}
    /\ cellErr = "none"
    /\ rpc = "psf"
    /\ runs = 0
    /\ results = <<>>

\* Scaling with the PSF row taken where the crop puts the cutout's central row
ScalingAligned(cutoutArray, kernelArray) ==
    RatDiv(RowSum(cutoutArray, cutoutArray.nx \div 2),
           RowSum(kernelArray, (cutoutArray.nx \div 2)
                               + ((kernelArray.nx - cutoutArray.nx) \div 2)))

\* lines 680-684: sum of the central row of the cutout over that of the PSF
Scaling(cutoutArray, kernelArray) ==
    RatDiv(RowSum(cutoutArray, cutoutArray.nx \div 2),
           RowSum(kernelArray, kernelArray.nx \div 2))

\* lines 697-698: whether plotting the slice residual raises.  The row of the
\* PSF image is cropped with offset_nx, subtracted from the cutout's row and
\* plotted against np.arange(cutout_nx)
SlicePlotRaises(cutoutArray, kernelArray, ox) ==
    LET cropped == CropLen(ox, kernelArray.ny)
    IN  \/ ~Broadcasts(cutoutArray.ny, cropped)
        \/ cutoutArray.nx # BroadcastLen(cutoutArray.ny, cropped)

\* ScaleCell with a check before the division: a PSF slice that sums to zero
\* raises and leaves scaling unassigned
ScaleCellGuarded ==
    /\ rpc \in {"psf", "residual"}
    /\ runs < MaxRuns
    /\ LET c == heap[cutout].image
           k == kernel_image
       IN  IF RowSum(k, k.nx \div 2)[1] = 0
           THEN /\ cellErr' = "ZeroDivisionError"
                /\ UNCHANGED <<scaling, defined, offset_nx, offset_ny>>
           ELSE /\ scaling' = Scaling(c, k)
                /\ IF c.nx # c.ny \/ k.nx # k.ny
                   THEN /\ cellErr' = "ValueError"
                        /\ defined' = defined \cup {"scaling"}
                        /\ UNCHANGED <<offset_nx, offset_ny>>
                   ELSE /\ offset_nx' = k.nx - c.nx
                        /\ offset_ny' = k.ny - c.ny
                        /\ defined' = defined \cup {"scaling", "offset_nx", "offset_ny"}
                        /\ cellErr' = IF SlicePlotRaises(c, k, k.nx - c.nx)
                                      THEN "ValueError" ELSE "none"
    /\ rpc' = "scaled"
    /\ runs' = runs + 1
    /\ UNCHANGED <<heap, cutout, residual, kernel_image, crop, cutout_minus_psf,
                   results, inp>>
    /\ UNCHANGED fetchVars
    /\ UNCHANGED batchVars
    /\ UNCHANGED lcVars

\* lines 675-704, the scaling cell.  plt.step raises ValueError when its x and
\* y differ in length; what the cell assigned before that stays assigned
ScaleCell ==
    /\ rpc \in {"psf", "residual"}
    /\ runs < MaxRuns
    /\ LET c == heap[cutout].image
           k == kernel_image
       IN  /\ scaling' = Scaling(c, k)
           /\ IF c.nx # c.ny \/ k.nx # k.ny
              THEN /\ cellErr' = "ValueError"
                   /\ defined' = defined \cup {"scaling"}
                   /\ UNCHANGED <<offset_nx, offset_ny>>
              ELSE /\ offset_nx' = k.nx - c.nx
                   /\ offset_ny' = k.ny - c.ny
                   /\ defined' = defined \cup {"scaling", "offset_nx", "offset_ny"}
                   /\ cellErr' = IF SlicePlotRaises(c, k, k.nx - c.nx)
                                 THEN "ValueError" ELSE "none"
    /\ rpc' = "scaled"
    /\ runs' = runs + 1
    /\ UNCHANGED <<heap, cutout, residual, kernel_image, crop, cutout_minus_psf,
                   results, inp>>
    /\ UNCHANGED fetchVars
    /\ UNCHANGED batchVars
    /\ UNCHANGED lcVars

\* lines 721-723: the expression assigned to cutout_minus_psf
Residual(cutoutArray, kernelArray, scale, ox, oy) ==
    Subtract(cutoutArray, Scale(scale, Crop2D(kernelArray, ox, oy)))

\* SubtractCell with the subtraction done in place, cutout.image.array -= ...
SubtractCellInPlace ==
    /\ rpc = "scaled"
    /\ {"scaling", "offset_nx", "offset_ny"} \subseteq defined
    /\ ~SubtractRaises(heap[cutout].image,
                       Scale(scaling, Crop2D(kernel_image, offset_nx, offset_ny)))
    /\ LET r == Residual(heap[cutout].image, kernel_image, scaling,
                         offset_nx, offset_ny)
       IN  /\ cutout_minus_psf' = r
           /\ results' = Append(results, r)
           /\ heap' = SetImage(heap, cutout, AsImageF(r))
    /\ crop' = Crop2D(kernel_image, offset_nx, offset_ny)
    /\ defined' = defined \cup {"cutout_minus_psf"}
    /\ cellErr' = "none"
    /\ rpc' = "subtracted"
    /\ UNCHANGED <<cutout, residual, kernel_image, scaling, offset_nx,
                   offset_ny, runs, inp>>
    /\ UNCHANGED fetchVars
    /\ UNCHANGED batchVars
    /\ UNCHANGED lcVars

\* lines 721-723, the subtraction cell: it makes a new array
SubtractCell ==
    /\ rpc = "scaled"
    /\ {"scaling", "offset_nx", "offset_ny"} \subseteq defined
    /\ ~SubtractRaises(heap[cutout].image,
                       Scale(scaling, Crop2D(kernel_image, offset_nx, offset_ny)))
    /\ LET r == Residual(heap[cutout].image, kernel_image, scaling,
                         offset_nx, offset_ny)
       IN  /\ cutout_minus_psf' = r
           /\ results' = Append(results, r)
    /\ crop' = Crop2D(kernel_image, offset_nx, offset_ny)
    /\ defined' = defined \cup {"cutout_minus_psf"}
    /\ cellErr' = "none"
    /\ rpc' = "subtracted"
    /\ UNCHANGED <<heap, cutout, residual, kernel_image, scaling, offset_nx,
                   offset_ny, runs, inp>>
    /\ UNCHANGED fetchVars
    /\ UNCHANGED batchVars
    /\ UNCHANGED lcVars

\* the subtraction cell raising: NameError when the scaling cell stopped
\* before it set the offsets, ValueError when the cropped PSF image does not
\* broadcast against the cutout
SubtractCellRaises ==
    /\ rpc = "scaled"
    /\ IF {"scaling", "offset_nx", "offset_ny"} \subseteq defined
       THEN /\ SubtractRaises(heap[cutout].image,
                     Scale(scaling, Crop2D(kernel_image, offset_nx, offset_ny)))
            /\ crop' = Crop2D(kernel_image, offset_nx, offset_ny)
            /\ cellErr' = "ValueError"
       ELSE /\ crop' = crop
            /\ cellErr' = "NameError"
    /\ rpc' = "raised"
    /\ UNCHANGED <<heap, cutout, residual, kernel_image, scaling, offset_nx,
                   offset_ny, cutout_minus_psf, defined, runs, results, inp>>
    /\ UNCHANGED fetchVars
    /\ UNCHANGED batchVars
    /\ UNCHANGED lcVars

\* lines 740-741: residual = cutout.clone(); residual.setImage(...)
ResidualCell ==
    /\ rpc = "subtracted"
    /\ LET c == Clone(heap, cutout)
       IN  /\ residual' = c.ref
           /\ heap' = SetImage(c.heap, c.ref, AsImageF(cutout_minus_psf))
    /\ defined' = defined \cup {"residual"}
    /\ cellErr' = "none"
    /\ rpc' = "residual"
    /\ UNCHANGED <<cutout, kernel_image, scaling, offset_nx, offset_ny, crop,
                   cutout_minus_psf, runs, results, inp>>
    /\ UNCHANGED fetchVars
    /\ UNCHANGED batchVars
    /\ UNCHANGED lcVars

NextResid ==
    \/ ScaleCell
    \/ SubtractCell
    \/ SubtractCellRaises
    \/ ResidualCell

SpecResid == InitResid /\ [][NextResid]_vars

(***************************************************************************)
(* The light-curve cell of the truth-catalog tutorial                      *)
(* (src/tutorials/truth_gcr_variables.ipynb, lines 119-128): the iterator  *)
(* of lc.get_quantities yields one table per object; a table is kept here  *)
(* as its number of epochs, len(q['mjd']).                                 *)
(***************************************************************************)
\* epochs of a table: below, at and above the threshold of line 121
EpochCounts == {MinEpochs - 1, MinEpochs, MinEpochs + 1}

\* the finite sequences the iterator can yield
RECURSIVE TablesUpTo(_)
TablesUpTo(n) ==
    IF n = 0 THEN {<<>>}
    ELSE TablesUpTo(n - 1) \cup [1..n -> EpochCounts]

\* line 119, and the iterator made by line 120
InitLC ==
    /\ FetchIdle
    /\ BatchIdle
    /\ ResidIdle
    /\ tables \in TablesUpTo(MaxTables)
    /\ taken = 0
    /\ n_plotted = 0
    /\ plotted = <<>>
    /\ lcpc = "loop"

\* LcIter with the test of n_plotted moved to the head of the loop body, before
\* the table is looked at
LcIterTestFirst ==
    /\ lcpc = "loop"
    /\ taken < Len(tables)
    /\ LET q == tables[taken + 1]
       IN  IF n_plotted >= PlotLimit
           THEN /\ UNCHANGED <<plotted, n_plotted>>
                /\ lcpc' = "after"
           ELSE /\ plotted' = IF q >= MinEpochs THEN Append(plotted, q) ELSE plotted
                /\ n_plotted' = IF q >= MinEpochs THEN n_plotted + 1 ELSE n_plotted
                /\ lcpc' = "loop"
    /\ taken' = taken + 1
    /\ UNCHANGED tables
    /\ UNCHANGED fetchVars
    /\ UNCHANGED batchVars
    /\ UNCHANGED residVars

\* lines 120-125, one pass of the loop: the next table is taken, plotted when
\* it has MinEpochs epochs, and the loop is left once PlotLimit are plotted
LcIter ==
    /\ lcpc = "loop"
    /\ taken < Len(tables)
    /\ LET q == tables[taken + 1]
           n == IF q >= MinEpochs THEN n_plotted + 1 ELSE n_plotted
       IN  /\ plotted' = IF q >= MinEpochs THEN Append(plotted, q) ELSE plotted
           /\ n_plotted' = n
           /\ lcpc' = IF n >= PlotLimit THEN "after" ELSE "loop"
    /\ taken' = taken + 1
    /\ UNCHANGED tables
    /\ UNCHANGED fetchVars
    /\ UNCHANGED batchVars
    /\ UNCHANGED residVars

\* line 120: the iterator has no further table, the for loop ends
LcExhausted ==
    /\ lcpc = "loop"
    /\ taken = Len(tables)
    /\ lcpc' = "after"
    /\ UNCHANGED <<tables, taken, n_plotted, plotted>>
    /\ UNCHANGED fetchVars
    /\ UNCHANGED batchVars
    /\ UNCHANGED residVars

\* lines 126-128: the axes are set, the cell is done
LcLabel ==
    /\ lcpc = "after"
    /\ lcpc' = "done"
    /\ UNCHANGED <<tables, taken, n_plotted, plotted>>
    /\ UNCHANGED fetchVars
    /\ UNCHANGED batchVars
    /\ UNCHANGED residVars

NextLC ==
    \/ LcIter
    \/ LcExhausted
    \/ LcLabel

SpecLC == InitLC /\ [][NextLC]_vars

(***************************************************************************)
(* Properties of the cutout fetcher, checked under Spec.                   *)
(***************************************************************************)
Fetchers == {"cutout_coadd_spherepoint", "cutout_coadd_ra_dec"}

\* the side length cutout_coadd_spherepoint ran with in the latest call
SideUsed == IF last.fn = "cutout_coadd_spherepoint" THEN last.side ELSE DefaultSide

\* the sub-image reads of the latest call
LastSubReads == SelectSeq(last.reads, LAMBDA q : q.suffix = "_sub")

\* the integer centre pixel of the latest call
LastCentre == PointI(skyToPixel(last.radec))

\* C1: the box of every sub-image read is s wide and s high, s the side
\* length cutout_coadd_spherepoint ran with, wherever the centre falls: the
\* box is not clipped to the patch.
C1_BoxHasRequestedSide ==
    \A i \in 1..Len(LastSubReads) :
        /\ LastSubReads[i].bbox.w = SideUsed
        /\ LastSubReads[i].bbox.h = SideUsed

\* a sub-image read whose box reaches past the patch that holds the centre
C1_Witness ==
    /\ last.fn = "cutout_coadd_spherepoint"
    /\ Len(LastSubReads) = 1
    /\ ~Within(LastSubReads[1].bbox, PatchBox(findPatch(last.radec)))

\* C2 as stated: on each axis the box is [c - s//2, c + s//2).
C2_Original ==
    \A i \in 1..Len(LastSubReads) :
        LET b == LastSubReads[i].bbox
            half == SideUsed \div 2
        IN  /\ b.x0 = LastCentre[1] - half /\ b.x0 + b.w = LastCentre[1] + half
            /\ b.y0 = LastCentre[2] - half /\ b.y0 + b.h = LastCentre[2] + half

\* C2 amended: on each axis the box starts at c - s//2 and ends (exclusive)
\* at c - s//2 + s, which is c + s//2 for even s and c + s//2 + 1 for odd s.
C2_BoxInterval ==
    \A i \in 1..Len(LastSubReads) :
        LET b == LastSubReads[i].bbox
            half == SideUsed \div 2
            odd == SideUsed % 2
        IN  /\ b.x0 = LastCentre[1] - half
            /\ b.x0 + b.w = LastCentre[1] + half + odd
            /\ b.y0 = LastCentre[2] - half
            /\ b.y0 + b.h = LastCentre[2] + half + odd

\* a sub-image read with an odd side length
C2_Witness ==
    /\ Len(LastSubReads) = 1
    /\ SideUsed % 2 = 1
    /\ LastSubReads[1].bbox.w = SideUsed

\* C3 as stated: a kind other than deepCoadd ends in UnsupportedKind with no
\* read issued.
C3_Original ==
    (last.fn \in Fetchers /\ last.kind # "deepCoadd") =>
        (last.err = "UnsupportedKind" /\ last.reads = <<>>)

\* C3 amended: the fetcher checks no image kind and never raises
\* UnsupportedKind; whatever the kind, a call that is given no skymap issues
\* the <kind>_skyMap read first, so a kind the repository lacks is refused
\* only by the storage collaborator failing a read that was issued.
C3_NoKindCheck ==
    last.fn \in Fetchers =>
        /\ last.err # "UnsupportedKind"
        /\ (last.fn = "cutout_coadd_ra_dec" \/ last.skymap = None) =>
              /\ Len(last.reads) >= 1
              /\ last.reads[1].suffix = "_skyMap"
              /\ last.reads[1].kind = last.kind
        /\ \A i \in 1..Len(last.reads) : last.reads[i].kind = last.kind

\* a calexp request that failed on the skyMap read it issued
C3_Witness ==
    /\ last.fn \in Fetchers
    /\ last.kind = "calexp"
    /\ last.err = "ReadError"
    /\ Len(last.reads) = 1
    /\ last.reads[1].suffix = "_skyMap"

\* the suffixes of the reads the storage collaborator received from call k
CallReads(k) ==
    LET es == SelectSeq(log, LAMBDA e : e[1] = k)
    IN  [i \in 1..Len(es) |-> es[i][2]]

\* every call so far was a cutout_coadd_ra_dec call that returned
AllRaDecReturned ==
    \A k \in 1..Len(hist) :
        hist[k].fn = "cutout_coadd_ra_dec" /\ hist[k].err = "none"

AskedName(flag, default) ==
    IF flag = PyFalse \/ flag = PyStr(<<>>) THEN <<>>
    ELSE IF flag = PyTrue THEN <<default>>
    ELSE <<flag.val>>

\* the names of the files of ws, in order
NamesOf(ws) == [i \in 1..Len(ws) |-> ws[i].name]

\* C8: a make_cutout_image call writes a FITS file exactly when savefits is
\* truthy and a PNG file exactly when saveplot is truthy, under the given
\* string or the default name; a call that raises has written no file it was
\* not asked for; and the files on disk change by the written files only.
C8_WritesOnlyRequested ==
    [][(last'.fn = "make_cutout_image" /\ nCalls' = nCalls + 1) =>
          LET asked == AskedName(last'.savefits, <<"postage-stamp.fits">>)
                       \o AskedName(last'.saveplot, <<"postage-stamp.png">>)
              wrote == NamesOf(last'.written)
          IN  /\ last'.err = "none" => wrote = asked
              /\ \A i \in 1..Len(wrote) : \E j \in 1..Len(asked) : wrote[i] = asked[j]
              /\ \A i \in 1..Len(last'.written) :
                    last'.written[i].fmt =
                        (IF last'.written[i].name \in
                                {<<"postage-stamp.fits">>, <<"out.fits">>}
                         THEN "fits" ELSE "png")
              /\ {f.name : f \in files'}
                    = {f.name : f \in files} \cup {wrote[i] : i \in 1..Len(wrote)}
              /\ \A f \in files' :
                    f \in files \/ \E i \in 1..Len(wrote) : f = last'.written[i]
    ]_vars

\* a call that returned with savefits=True and saveplot a path: the default
\* FITS name and the path are on disk
C8_Witness ==
    /\ last.fn = "make_cutout_image"
    /\ last.err = "none"
    /\ last.savefits = PyTrue
    /\ last.saveplot = PyStr(<<"out.png">>)
    /\ {f.name : f \in files} = {<<"postage-stamp.fits">>, <<"out.png">>}

(***************************************************************************)
(* Properties of the batch loop, checked under SpecBatch.                  *)
(***************************************************************************)
\* the rows whose processing raised
Raised == {k \in 1..Len(hist) : hist[k].err # "none"}

\* the row of a file of the batch loop
RowOf(f) == CHOOSE k \in 1..Len(cat) : f.name[4] = ToString(k)

\* C7: when the processing of row k raises, the loop ends there: row k is
\* the last row any step was taken for, it was tried once, no file of a later
\* row exists, and the FITS and PNG files of every row before k are on disk.
C7_FailureAbortsBatch ==
    /\ (status = "raised") = (Raised # {})
    /\ \A k \in Raised :
          /\ k = Len(hist)
          /\ k = pos + 1
          /\ \A i \in 1..Len(log) : log[i][1] <= k
          /\ Len(SelectSeq(log, LAMBDA e : e = <<k, "figure">>)) = 1
          /\ Len(SelectSeq(log, LAMBDA e : e = <<k, "_skyMap">>)) = 1
          /\ \A f \in files : RowOf(f) <= k
          /\ \A j \in 1..(k - 1) :
                /\ \E f \in files : RowOf(f) = j /\ f.fmt = "fits"
                /\ \E f \in files : RowOf(f) = j /\ f.fmt = "png"

\* a row in the middle of the catalog raised: rows before it are written,
\* rows after it are left
C7_Witness ==
    /\ status = "raised"
    /\ pos >= 1
    /\ pos + 1 < Len(cat)
    /\ \E f \in files : RowOf(f) = pos

(***************************************************************************)
(* Properties of the PSF-subtraction cells, checked under SpecResid.       *)
(***************************************************************************)
\* the subtraction cell has evaluated the crop
Cropped == crop.dtype # "none"

\* C4 as stated: whenever the PSF image is at least as large as the cutout,
\* the crop has the cutout's shape.
C4_Original ==
    Cropped => (crop.nx = heap[cutout].image.nx /\ crop.ny = heap[cutout].image.ny)

\* the length the crop leaves of an axis of length len + d: len when the PSF
\* image is larger (d > 0), nothing when it is as large as the cutout
CropKeeps(d, len) == IF d > 0 THEN len ELSE 0

\* C4 amended: with p > m and q > n the crop has shape (m, n), for odd and
\* even differences, and 61 cropped to 51 loses 5 pixels on each side; with
\* p = m (q = n) the slice is [0:0] and the crop is empty along that axis.
C4_CropShape ==
    /\ Cropped =>
          /\ crop.nx = CropKeeps(kernel_image.nx - heap[cutout].image.nx,
                                 heap[cutout].image.nx)
          /\ crop.ny = CropKeeps(kernel_image.ny - heap[cutout].image.ny,
                                 heap[cutout].image.ny)
    /\ \A in \in Inputs :
          LET c == Crop2D(KernelArray(in), in.px, in.py)
          IN  c.nx = CropKeeps(in.px, in.m) /\ c.ny = CropKeeps(in.py, in.n)
    /\ CropLo(61 - 51, 61) = 5
    /\ CropLen(61 - 51, 61) = 51

\* the subtraction cell cropped a PSF image larger than the cutout
C4_Witness ==
    /\ rpc = "subtracted"
    /\ kernel_image.nx > heap[cutout].image.nx
    /\ crop.nx = heap[cutout].image.nx
    /\ crop.ny = heap[cutout].image.ny

\* r is the residual of cutout array c and PSF array k under scale s: it has
\* the shape of c and r[i,j] = c[i,j] - s * k[i + (p-m)//2, j + (q-n)//2]
IsResidualOf(r, c, k, s) ==
    /\ r.nx = c.nx
    /\ r.ny = c.ny
    /\ DOMAIN r.v = Index(c.nx, c.ny)
    /\ \A ij \in Index(c.nx, c.ny) :
          LET kij == k.v[<<ij[1] + (k.nx - c.nx) \div 2,
                           ij[2] + (k.ny - c.ny) \div 2>>]
          IN  /\ (r.v[ij][2] = 0) = (s[2] = 0)
              /\ r.v[ij][1] * s[2] * c.v[ij][2] * kij[2]
                    = (c.v[ij][1] * s[2] * kij[2] - s[1] * kij[1] * c.v[ij][2])
                      * r.v[ij][2]

\* the subtraction cell was run with the offsets set
SubtractionTried ==
    /\ rpc \in {"subtracted", "residual", "raised"}
    /\ {"scaling", "offset_nx", "offset_ny"} \subseteq defined
    /\ Cropped

\* C5 as stated: whenever the PSF image is at least as large as the cutout,
\* the subtraction gives the residual of the cutout's shape.
C5_Original ==
    SubtractionTried =>
        /\ rpc # "raised"
        /\ IsResidualOf(cutout_minus_psf, heap[cutout].image, kernel_image, scaling)

\* C5 amended: with p > m and q > n the residual has shape (m, n) and
\* residual[i,j] = C[i,j] - scale * K[i + (p-m)//2, j + (q-n)//2], scale the
\* one quotient of the central-row sums; with p = m or q = n the cropped PSF
\* image is empty and the subtraction raises or gives an empty array.
C5_ResidualValues ==
    /\ (SubtractionTried /\ kernel_image.nx > heap[cutout].image.nx
                         /\ kernel_image.ny > heap[cutout].image.ny) =>
          /\ rpc # "raised"
          /\ scaling = <<RowSum(heap[cutout].image, heap[cutout].image.nx \div 2)[1],
                         RowSum(kernel_image, kernel_image.nx \div 2)[1]>>
          /\ IsResidualOf(cutout_minus_psf, heap[cutout].image, kernel_image,
                          scaling)
    /\ (SubtractionTried /\ (kernel_image.nx = heap[cutout].image.nx
                             \/ kernel_image.ny = heap[cutout].image.ny)) =>
          \/ rpc = "raised"
          \/ cutout_minus_psf.nx * cutout_minus_psf.ny = 0
    /\ \A in \in Inputs :
          (in.px > 0 /\ in.py > 0) =>
              LET c == CutoutArray(in)
                  k == KernelArray(in)
                  s == Scaling(c, k)
              IN  /\ ~SubtractRaises(c, Scale(s, Crop2D(k, in.px, in.py)))
                  /\ IsResidualOf(Residual(c, k, s, in.px, in.py), c, k, s)

\* a residual of a PSF image larger than the cutout, under a finite scale,
\* that differs from the cutout
C5_Witness ==
    /\ rpc = "subtracted"
    /\ kernel_image.nx > heap[cutout].image.nx
    /\ scaling[2] # 0
    /\ cutout_minus_psf.nx = heap[cutout].image.nx
    /\ \E ij \in Index(cutout_minus_psf.nx, cutout_minus_psf.ny) :
          cutout_minus_psf.v[ij][1] # heap[cutout].image.v[ij][1] * cutout_minus_psf.v[ij][2]

\* C9: the cutout stays the exposure that was fetched, and once the residual
\* exposure is built it is another object with the cutout's mask, variance
\* and coordinate transform and the subtracted array as its image.
C9_ResidualKeepsPlanes ==
    /\ heap[cutout] = CutoutExposure(inp)
    /\ rpc = "residual" =>
          /\ residual # cutout
          /\ heap[residual].mask = heap[cutout].mask
          /\ heap[residual].variance = heap[cutout].variance
          /\ heap[residual].wcs = heap[cutout].wcs
          /\ heap[residual].image.v = cutout_minus_psf.v
          /\ heap[residual].image.dtype = "float32"

\* a residual exposure whose image differs from the cutout's
C9_Witness ==
    /\ rpc = "residual"
    /\ heap[residual].image.v # heap[cutout].image.v
    /\ heap[residual].mask = heap[cutout].mask

\* C10: every run of the scaling and subtraction cells gives the same
\* residual array, the one the inputs determine, whatever ran before.
C10_RunsAgree ==
    /\ \A i \in 1..Len(results) : \A j \in 1..Len(results) : results[i] = results[j]
    /\ \A i \in 1..Len(results) :
          /\ IsResidualOf(results[i], CutoutArray(inp), KernelArray(inp), scaling)
             \/ inp.px = 0
          /\ scaling[1] * RowSum(KernelArray(inp), (inp.m + inp.px) \div 2)[1]
                = scaling[2] * RowSum(CutoutArray(inp), inp.m \div 2)[1]

\* the cells were run twice on a PSF image larger than the cutout, under a
\* finite scale
C10_Witness ==
    /\ Len(results) = 2
    /\ inp.px > 0
    /\ scaling[2] # 0
    /\ results[2].nx = inp.m

(***************************************************************************)
(* Properties of the wrappers, checked under Spec and SpecImage.           *)
(***************************************************************************)
\* C11 as stated: a cutout_coadd_ra_dec call issues the reads that
\* cutout_coadd_spherepoint issues for the same position, filter, datasetType
\* and the same optional keywords (skymap, cutoutSideLength).
C11_Original ==
    last.fn = "cutout_coadd_ra_dec" =>
        \E resp \in Resps :
            LET direct == cutout_coadd_spherepoint(last.radec, last.filter, last.kind,
                                                   last.skymap, last.side, resp)
            IN  direct.reads = last.reads /\ direct.err = last.err

\* C12 as stated: a display_cutout_image call issues the reads and writes the
\* files (FITS when savefits is truthy, PNG when saveplot is truthy) that
\* make_cutout_image does when called with the same values.
C12_Original ==
    last.fn = "display_cutout_image" =>
        \E resp \in ImageResps :
            LET made == make_cutout_image(last.radec, "r", None, None, NoLabel, TRUE,
                                          last.saveplot, last.savefits, last.kind,
                                          resp, <<>>)
            IN  /\ made.reads = last.reads
                /\ made.err = last.err
                /\ NamesOf(made.written) = NamesOf(last.written)

(***************************************************************************)
(* Properties of the light-curve cell, checked under SpecLC.               *)
(***************************************************************************)
\* the tables among the first k that have MinEpochs epochs
Qualifying(k) == {i \in 1..k : tables[i] >= MinEpochs}

\* C13 as stated: when the loop has ended, exactly 3 light curves are plotted.
C13_Original ==
    lcpc \in {"after", "done"} => n_plotted = PlotLimit

\* C13 amended: the loop plots the first 3 tables of at least 20 epochs, or
\* all such tables when the iterator yields fewer than 3 of them; the count
\* never exceeds 3, every plotted curve has at least 20 epochs, the table of
\* the third plot is the last one taken, and with fewer than 3 plots the
\* iterator is run to its end.
C13_PlotsAtMostThree ==
    /\ n_plotted <= PlotLimit
    /\ n_plotted = Len(plotted)
    /\ n_plotted = Cardinality(Qualifying(taken))
    /\ \A i \in 1..Len(plotted) : plotted[i] >= MinEpochs
    /\ taken <= Len(tables)
    /\ n_plotted = PlotLimit => (taken >= 1 /\ tables[taken] >= MinEpochs
                                 /\ lcpc # "loop")
    /\ lcpc \in {"after", "done"} =>
          /\ n_plotted = Min2(PlotLimit, Cardinality(Qualifying(Len(tables))))
          /\ n_plotted < PlotLimit => taken = Len(tables)

\* the third curve is plotted and the iterator still holds tables
C13_Witness ==
    /\ lcpc = "done"
    /\ n_plotted = PlotLimit
    /\ taken < Len(tables)
    /\ \E i \in 1..taken : tables[i] < MinEpochs

(***************************************************************************)
(* Further properties of the PSF-subtraction cells, under SpecResid.       *)
(***************************************************************************)
\* pixels a crop by difference d discards from the low-index side of an axis
\* and from the high-index side
LeadingCut(d) == d \div 2
TrailingCut(d) == IF d % 2 = 1 THEN (d \div 2) + 1 ELSE d \div 2

\* C14: for a positive size difference d the crop discards floor(d/2) pixels
\* from the low-index side of the axis and, for odd d, floor(d/2) + 1 from the
\* high-index side, for even d the same d/2 from each side.
C14_OddOffsetAsymmetric ==
    /\ (Cropped /\ offset_nx > 0 /\ offset_ny > 0) =>
          /\ crop.nx = kernel_image.nx - LeadingCut(offset_nx) - TrailingCut(offset_nx)
          /\ crop.ny = kernel_image.ny - LeadingCut(offset_ny) - TrailingCut(offset_ny)
          /\ \A ij \in Index(crop.nx, crop.ny) :
                crop.v[ij] = kernel_image.v[<<ij[1] + LeadingCut(offset_nx),
                                              ij[2] + LeadingCut(offset_ny)>>]
    /\ \A d \in 1..MaxPad : \A len \in 1..MaxCut :
          /\ CropLo(d, len + d) = LeadingCut(d)
          /\ (len + d) - (CropLo(d, len + d) + CropLen(d, len + d)) = TrailingCut(d)
          /\ (d % 2 = 1) => (TrailingCut(d) = LeadingCut(d) + 1)
          /\ (d % 2 = 0) => (TrailingCut(d) = LeadingCut(d) /\ 2 * LeadingCut(d) = d)

\* an odd difference: no leading row discarded, the trailing row is
C14_Witness ==
    /\ rpc = "subtracted"
    /\ offset_nx % 2 = 1
    /\ offset_nx > 0
    /\ inp.kseed > 0
    /\ crop.nx = kernel_image.nx - 1
    /\ crop.v[<<0, 0>>] = kernel_image.v[<<0, 0>>]

\* C15: scaling is the sum of row floor(nx/2) of the cutout over the sum of
\* row floor(nx/2) of the PSF image, divided without a check: a PSF row that
\* sums to zero raises nothing in the scaling cell, scaling is then not
\* finite, and the subtraction cell goes on with it, raising only when the
\* shapes do not fit.
C15_UnguardedScale ==
    LET c == heap[cutout].image
        k == kernel_image
        zero == RowSum(k, k.nx \div 2)[1] = 0
    IN  /\ cellErr # "ZeroDivisionError"
        /\ rpc \in {"scaled", "subtracted", "residual", "raised"} =>
              /\ "scaling" \in defined
              /\ scaling[1] = RowSum(c, c.nx \div 2)[1] * RowSum(k, k.nx \div 2)[2]
              /\ scaling[2] = RowSum(c, c.nx \div 2)[2] * RowSum(k, k.nx \div 2)[1]
              /\ zero = (scaling[2] = 0)
        /\ (rpc = "scaled" /\ zero /\ c.nx = c.ny /\ k.nx = k.ny /\ k.nx > c.nx) =>
              /\ cellErr = "none"
              /\ {"offset_nx", "offset_ny"} \subseteq defined
        /\ (rpc = "raised" /\ zero /\ cellErr = "ValueError") =>
              (k.nx = c.nx \/ k.ny = c.ny)
        /\ (rpc \in {"subtracted", "residual"} /\ zero /\ k.nx > c.nx) =>
              \A ij \in Index(cutout_minus_psf.nx, cutout_minus_psf.ny) :
                  cutout_minus_psf.v[ij][2] = 0

\* the PSF row sums to zero and the subtraction was made with the scale
C15_Witness ==
    /\ rpc = "subtracted"
    /\ RowSum(kernel_image, kernel_image.nx \div 2)[1] = 0
    /\ scaling[2] = 0
    /\ kernel_image.nx > heap[cutout].image.nx
    /\ cutout_minus_psf.nx = heap[cutout].image.nx

(***************************************************************************)
(* Further properties of the batch loop, under SpecBatch.                  *)
(***************************************************************************)
\* the steps of row k, in the order they were taken
RowSteps(k) == SelectSeq(log, LAMBDA e : e[1] = k)

\* the steps of a row that ran through, with show=False
FullRow(k) ==
    LogOf(k, <<"figure", "clf", "_skyMap", "_sub", "writeFits", "imshow",
               "colorbar", "scatter", "title", "savefig">>)

\* C16: the rows are processed one after another, each row that ran through
\* took its steps in the order figure, clear, fetch, FITS write, draw, PNG
\* save before any step of the next row, and the PNG of a row holds the
\* drawing of that row and nothing else.
C16_ClearBeforeDraw ==
    /\ \A i \in 1..Len(log) : \A j \in i..Len(log) : log[i][1] <= log[j][1]
    /\ \A k \in 1..pos : RowSteps(k) = FullRow(k)
    /\ \A k \in 1..Len(cat) :
          \E n \in 0..Len(FullRow(k)) : RowSteps(k) = SubSeq(FullRow(k), 1, n)
    /\ Len(canvas) <= 1
    /\ \A f \in files :
          f.fmt = "png" =>
              /\ RowOf(f) <= pos
              /\ Len(f.drawn) = 1
              /\ f.drawn[1].label = <<"Object ID: ", ToString(RowOf(f))>>
              /\ f.drawn[1].image.bbox = CutoutBBox(cat[RowOf(f)], DefaultSide)
              /\ f.drawn[1].image.dataId.patch = findPatch(cat[RowOf(f)])

\* the loop ran through a catalog whose rows differ: each PNG holds its row
C16_Witness ==
    /\ status = "done"
    /\ pos = Len(cat)
    /\ pos >= 2
    /\ cat[1] # cat[2]
    /\ Cardinality({f \in files : f.fmt = "png" /\ Len(f.drawn) = 1}) = pos

(***************************************************************************)
(* The kind and band read by the plotting wrappers, under SpecImage.       *)
(***************************************************************************)
\* C17 as stated: the reads of a make_cutout_image or display_cutout_image
\* call are keyed by the datasetType the caller passed, and the sub-image
\* read of make_cutout_image carries the filter the caller passed.
C17_Original ==
    last.fn \in {"make_cutout_image", "display_cutout_image"} =>
        \A i \in 1..Len(last.reads) :
            /\ last.reads[i].kind = last.kind
            /\ (last.fn = "make_cutout_image" /\ last.reads[i].suffix = "_sub") =>
                  last.reads[i].dataId.filter = last.filter

(***************************************************************************)
(* The rows of the scale and of the subtraction, under SpecResid.          *)
(***************************************************************************)
\* C18 as stated: the PSF row that gives the scale, p//2, is the row the crop
\* puts under the cutout's central row, m//2 + (p-m)//2.
C18_Original ==
    Cropped =>
        kernel_image.nx \div 2
            = (heap[cutout].image.nx \div 2)
              + ((kernel_image.nx - heap[cutout].image.nx) \div 2)

\* rows between the PSF row of the scale and the PSF row subtracted from the
\* cutout's central row, for cutout height m and PSF height p
RowSkew(m, p) == IF m % 2 = 1 /\ p % 2 = 0 THEN 1 ELSE 0

\* C18 amended: p//2 = m//2 + (p-m)//2 unless m is odd and p is even; then
\* p//2 = m//2 + (p-m)//2 + 1, and the PSF row that gives the scale is the
\* row after the one subtracted from the cutout's central row.
C18_RowAlignment ==
    LET c == heap[cutout].image
        k == kernel_image
        under == (c.nx \div 2) + ((k.nx - c.nx) \div 2)
    IN  /\ (rpc \in {"scaled", "subtracted", "residual", "raised"}) =>
              /\ k.nx \div 2 = under + RowSkew(c.nx, k.nx)
              /\ scaling = RatDiv(RowSum(c, c.nx \div 2),
                                  RowSum(k, under + RowSkew(c.nx, k.nx)))
        /\ (Cropped /\ k.nx > c.nx /\ k.ny > c.ny) =>
              \A j \in 0..(crop.ny - 1) :
                  crop.v[<<c.nx \div 2, j>>]
                      = k.v[<<(k.nx \div 2) - RowSkew(c.nx, k.nx),
                              j + ((k.ny - c.ny) \div 2)>>]
        /\ \A m \in 1..MaxCut : \A d \in 0..MaxPad :
              (m + d) \div 2 = (m \div 2) + (d \div 2) + RowSkew(m, m + d)

\* an odd cutout under an even PSF image: the row of the scale is not the
\* row subtracted from the cutout's central row
C18_Witness ==
    /\ rpc = "subtracted"
    /\ heap[cutout].image.nx % 2 = 1
    /\ kernel_image.nx % 2 = 0
    /\ inp.kseed > 0
    /\ crop.v[<<heap[cutout].image.nx \div 2, 0>>]
          # kernel_image.v[<<kernel_image.nx \div 2, offset_ny \div 2>>]

\* C19 as stated: for every cutout and PSF image, square or not, the PSF row
\* cropped with the first-axis offset has the length of the cutout's row, the
\* x positions np.arange(cutout_nx) have that length too, and the scaling
\* cell plots the slice residual without an error.
C19_Original ==
    rpc = "scaled" =>
        LET c == heap[cutout].image
            k == kernel_image
        IN  /\ CropLen(k.nx - c.nx, k.ny) = c.ny
            /\ c.nx = c.ny
            /\ ~SlicePlotRaises(c, k, k.nx - c.nx)
            /\ cellErr = "none"
====
